---- MODULE Spec2Model ----
(***************************************************************************)
(* Settings loader of fastapi-aws-backend (app/core/config.py).            *)
(*                                                                         *)
(* The module merges the .env file into the process environment            *)
(* (load_dotenv(".env", override=True)) and then constructs the global     *)
(* Settings object, a pydantic-settings BaseSettings with 21 fields, one   *)
(* "before" validator on ALLOWED_HOSTS, case_sensitive = True and          *)
(* env_file = ".env".                                                      *)
(*                                                                         *)
(* Python values are tagged records: PyStr, PyInt, PyList, PyNone.  The    *)
(* text of a string that the code inspects character by character (the     *)
(* values of ALLOWED_HOSTS and of the integer fields) is a sequence of     *)
(* one-character strings; the text of a string that is only passed through *)
(* is a TLA+ string.                                                       *)
(***************************************************************************)
EXTENDS Integers, Sequences, FiniteSets, TLC

VARIABLES
    environ,    \* os.environ: a function from the names that are set to their values
    dotenv,     \* the key/value pairs of the .env file (empty: no file, or an empty one)
    pc,         \* "start", "loaded" (settings is bound) or "failed" (ValidationError raised)
    settings,   \* <<>> while no Settings object exists, else <<the object>>
    validator,  \* <<>> or <<[v, ret]>>: argument and result of the last assemble_cors_origins call
    loads,      \* how many times the module has been executed
    inherited   \* the environment the process was started with (never changes)

vars == <<environ, dotenv, pc, settings, validator, loads, inherited>>

---------------------------------------------------------------------------
(* Bounds of the model. *)

\* longest ALLOWED_HOSTS text enumerated exhaustively
MaxHostsLen == 4

\* longest integer-field text enumerated exhaustively
MaxIntLen == 2

\* how many times the module is executed (import, then reloads)
MaxLoads == 2

---------------------------------------------------------------------------
(* Python values. *)

PyNone == [t |-> "none"]

PyStr(s) == [t |-> "str", v |-> s]

PyInt(n) == [t |-> "int", v |-> n]

PyList(l) == [t |-> "list", v |-> l]

PyBool(b) == [t |-> "bool", v |-> b]

\* characters str.strip() removes (those of them the model can write)
Whitespace == {" ", "\t", "\n", "\r", "\f"}

\* characters json.loads skips between tokens
JsonWhitespace == {" ", "\t", "\n", "\r"}

Digits == {"0", "1", "2", "3", "4", "5", "6", "7", "8", "9"}

DigitVal(c) ==
    CASE c = "0" -> 0 [] c = "1" -> 1 [] c = "2" -> 2 [] c = "3" -> 3 [] c = "4" -> 4
      [] c = "5" -> 5 [] c = "6" -> 6 [] c = "7" -> 7 [] c = "8" -> 8 [] c = "9" -> 9

---------------------------------------------------------------------------
(* str.split(",") and str.strip(), as Python computes them. *)

RECURSIVE SplitFrom(_, _, _, _)
\* scan s from index i; cur is the piece being collected, acc the pieces closed so far
SplitFrom(s, i, cur, acc) ==
    IF i > Len(s) THEN Append(acc, cur)
    ELSE IF s[i] = "," THEN SplitFrom(s, i + 1, <<>>, Append(acc, cur))
    ELSE SplitFrom(s, i + 1, Append(cur, s[i]), acc)

\* v.split(","): always at least one piece ("" splits into [""])
split(s) == SplitFrom(s, 1, <<>>, <<>>)

RECURSIVE lstrip(_)
lstrip(s) == IF s # <<>> /\ Head(s) \in Whitespace THEN lstrip(Tail(s)) ELSE s

RECURSIVE rstrip(_)
rstrip(s) ==
    IF s # <<>> /\ s[Len(s)] \in Whitespace THEN rstrip(SubSeq(s, 1, Len(s) - 1)) ELSE s

\* i.strip()
strip(s) == rstrip(lstrip(s))

RECURSIVE KeepUnstripped(_)
\* slip: [i for i in pieces if i.strip()], the kept pieces are not trimmed
KeepUnstripped(pieces) ==
    IF pieces = <<>> THEN <<>>
    ELSE LET i == Head(pieces) IN
         IF strip(i) # <<>>
         THEN <<PyStr(i)>> \o KeepUnstripped(Tail(pieces))
         ELSE KeepUnstripped(Tail(pieces))

RECURSIVE StripAll(_)
\* slip: [i.strip() for i in pieces], the empty pieces are kept
StripAll(pieces) ==
    IF pieces = <<>> THEN <<>>
    ELSE <<PyStr(strip(Head(pieces)))>> \o StripAll(Tail(pieces))

RECURSIVE StripNonEmpty(_)
\* [i.strip() for i in pieces if i.strip()]: an empty str is falsy
StripNonEmpty(pieces) ==
    IF pieces = <<>> THEN <<>>
    ELSE LET i == Head(pieces) IN
         IF strip(i) # <<>>
         THEN <<PyStr(strip(i))>> \o StripNonEmpty(Tail(pieces))
         ELSE StripNonEmpty(Tail(pieces))

---------------------------------------------------------------------------
(* The "before" validator of ALLOWED_HOSTS. *)

\* slip: [...] or ["*"], a blank string falls back to the wildcard
assemble_blank_is_wildcard(v) ==
    IF v.t = "str"
    THEN IF StripNonEmpty(split(v.v)) = <<>> THEN PyList(<<PyStr(<<"*">>)>>)
         ELSE PyList(StripNonEmpty(split(v.v)))
    ELSE IF v.t = "list" THEN v
    ELSE PyList(<<PyStr(<<"*">>)>>)

\* slip: the final return hands back v, an unsupported shape reaches the type check
assemble_no_fallback(v) ==
    IF v.t = "str" THEN PyList(StripNonEmpty(split(v.v))) ELSE v

\* slip: a list is normalised like the pieces of a string
assemble_normalises_list(v) ==
    IF v.t = "str" THEN PyList(StripNonEmpty(split(v.v)))
    ELSE IF v.t = "list"
    THEN PyList(SelectSeq([k \in 1..Len(v.v) |->
                              IF v.v[k].t = "str" THEN PyStr(strip(v.v[k].v)) ELSE v.v[k]],
                          LAMBDA e : e.t # "str" \/ e.v # <<>>))
    ELSE PyList(<<PyStr(<<"*">>)>>)

assemble_cors_origins(v) ==
    IF v.t = "str" THEN PyList(StripNonEmpty(split(v.v)))
    ELSE IF v.t = "list" THEN v
    ELSE PyList(<<PyStr(<<"*">>)>>)

---------------------------------------------------------------------------
(* pydantic-settings decodes the environment text of a complex field       *)
(* (ALLOWED_HOSTS: Union[List[str], str]) with json.loads before any       *)
(* validator runs.  The decoder covers the JSON the model's characters can *)
(* spell: integers, strings without escapes, arrays, null, true, false,    *)
(* whitespace.                                                             *)

JsonFail == [ok |-> FALSE, val |-> PyNone, next |-> 0]

RECURSIVE SkipWs(_, _)
SkipWs(s, i) == IF i <= Len(s) /\ s[i] \in JsonWhitespace THEN SkipWs(s, i + 1) ELSE i

RECURSIVE DigitsEnd(_, _)
\* first index at or after i that holds no digit
DigitsEnd(s, i) == IF i <= Len(s) /\ s[i] \in Digits THEN DigitsEnd(s, i + 1) ELSE i

RECURSIVE DecimalValue(_, _, _, _)
\* value of the digits s[i..j-1], most significant first
DecimalValue(s, i, j, acc) ==
    IF i >= j THEN acc ELSE DecimalValue(s, i + 1, j, 10 * acc + DigitVal(s[i]))

\* -?(0|[1-9][0-9]*) at index i
ParseNumber(s, i) ==
    LET neg == i <= Len(s) /\ s[i] = "-"
        d == IF neg THEN i + 1 ELSE i
        e == IF d <= Len(s) /\ s[d] = "0" THEN d + 1 ELSE DigitsEnd(s, d)
        n == DecimalValue(s, d, e, 0)
    IN  IF e = d THEN JsonFail
        ELSE [ok |-> TRUE, val |-> PyInt(IF neg THEN 0 - n ELSE n), next |-> e]

RECURSIVE QuoteEnd(_, _)
\* index of the closing quote at or after i, or Len(s) + 1 when there is none
QuoteEnd(s, i) == IF i <= Len(s) /\ s[i] # "\"" THEN QuoteEnd(s, i + 1) ELSE i

\* a string literal whose opening quote is at index i
ParseString(s, i) ==
    LET e == QuoteEnd(s, i + 1)
    IN  IF e > Len(s) THEN JsonFail
        ELSE [ok |-> TRUE, val |-> PyStr(SubSeq(s, i + 1, e - 1)), next |-> e + 1]

\* the literal lit at index i
ParseLiteral(s, i, lit, val) ==
    IF i + Len(lit) - 1 <= Len(s) /\ SubSeq(s, i, i + Len(lit) - 1) = lit
    THEN [ok |-> TRUE, val |-> val, next |-> i + Len(lit)]
    ELSE JsonFail

RECURSIVE ParseValue(_, _)
RECURSIVE ParseElements(_, _, _)
\* the elements of an array, i at the start of the next element
ParseElements(s, i, acc) ==
    LET r == ParseValue(s, i)
        j == SkipWs(s, r.next)
    IN  IF ~r.ok \/ j > Len(s) THEN JsonFail
        ELSE IF s[j] = "]"
        THEN [ok |-> TRUE, val |-> PyList(Append(acc, r.val)), next |-> j + 1]
        ELSE IF s[j] = "," THEN ParseElements(s, SkipWs(s, j + 1), Append(acc, r.val))
        ELSE JsonFail

ParseValue(s, i) ==
    IF i > Len(s) THEN JsonFail
    ELSE IF s[i] = "\"" THEN ParseString(s, i)
    ELSE IF s[i] = "["
    THEN LET j == SkipWs(s, i + 1)
         IN  IF j <= Len(s) /\ s[j] = "]"
             THEN [ok |-> TRUE, val |-> PyList(<<>>), next |-> j + 1]
             ELSE ParseElements(s, j, <<>>)
    ELSE IF s[i] \in Digits \cup {"-"} THEN ParseNumber(s, i)
    ELSE IF s[i] = "n" THEN ParseLiteral(s, i, <<"n", "u", "l", "l">>, PyNone)
    ELSE IF s[i] = "t" THEN ParseLiteral(s, i, <<"t", "r", "u", "e">>, PyBool(TRUE))
    ELSE IF s[i] = "f" THEN ParseLiteral(s, i, <<"f", "a", "l", "s", "e">>, PyBool(FALSE))
    ELSE JsonFail

\* json.loads(s): one value, nothing but whitespace around it
json_loads(s) ==
    LET r == ParseValue(s, SkipWs(s, 1))
    IN  IF r.ok /\ SkipWs(s, r.next) = Len(s) + 1 THEN r ELSE JsonFail

\* the value handed to the validators of a Union field with a complex member:
\* the decoded JSON, or the text itself when it is not JSON
decode_complex_value(s) ==
    LET r == json_loads(s) IN IF r.ok THEN r.val ELSE PyStr(s)

---------------------------------------------------------------------------
(* The declared fields of Settings: annotation and default. *)

\* str fields and their defaults
StrDefaults ==
    [ PROJECT_NAME          |-> "FastAPI AWS Boilerplate",
      VERSION               |-> "1.0.0",
      DESCRIPTION           |-> "FastAPI application with AWS services",
      API_V1_STR            |-> "/api/v1",
      ENVIRONMENT           |-> "development",
      AWS_REGION            |-> "us-east-1",
      DYNAMODB_TABLE_PREFIX |-> "fastapi-app",
      USERS_TABLE_NAME      |-> "fastapi-app-users",
      COGNITO_REGION        |-> "us-east-1",
      S3_REGION             |-> "us-east-1",
      JWT_SECRET_KEY        |-> "your-secret-key-change-this",
      JWT_ALGORITHM         |-> "HS256" ]

\* Optional[str] fields, all with default None
OptionalFields ==
    { "AWS_ACCESS_KEY_ID", "AWS_SECRET_ACCESS_KEY", "COGNITO_USER_POOL_ID",
      "COGNITO_CLIENT_ID", "COGNITO_CLIENT_SECRET", "S3_BUCKET_NAME" }

\* int fields and their defaults
IntDefaults == [ ACCESS_TOKEN_EXPIRE_MINUTES |-> 30, CACHE_TTL |-> 300 ]

StrFields == DOMAIN StrDefaults

IntFields == DOMAIN IntDefaults

FieldNames == StrFields \cup OptionalFields \cup IntFields \cup {"ALLOWED_HOSTS"}

\* slip: an Optional[str] field declared with "" for None
DefaultEmptyOptional(f) ==
    IF f \in StrFields THEN PyStr(StrDefaults[f])
    ELSE IF f \in IntFields THEN PyInt(IntDefaults[f])
    ELSE IF f = "ALLOWED_HOSTS" THEN PyList(<<PyStr(<<"*">>)>>)
    ELSE PyStr("")

\* the class attribute's value; a default is not validated (validate_default is off)
Default(f) ==
    IF f \in StrFields THEN PyStr(StrDefaults[f])
    ELSE IF f \in IntFields THEN PyInt(IntDefaults[f])
    ELSE IF f = "ALLOWED_HOSTS" THEN PyList(<<PyStr(<<"*">>)>>)
    ELSE PyNone

---------------------------------------------------------------------------
(* Validation of one field's input. *)

ValidationError == [ok |-> FALSE, val |-> PyNone]

Valid(val) == [ok |-> TRUE, val |-> val]

\* slip: text that is no integer is read as 0 instead of failing
int_validate_lenient(s) ==
    IF s # <<>> /\ \A i \in 1..Len(s) : s[i] \in Digits
    THEN Valid(PyInt(DecimalValue(s, 1, Len(s) + 1, 0)))
    ELSE Valid(PyInt(0))

\* int from environment text: the decimal digits of an integer, anything else is an error
int_validate(s) ==
    IF s # <<>> /\ \A i \in 1..Len(s) : s[i] \in Digits
    THEN Valid(PyInt(DecimalValue(s, 1, Len(s) + 1, 0)))
    ELSE ValidationError

\* Union[List[str], str] applied to the validator's result: a str, or a list of str
union_validate(v) ==
    IF v.t = "str" THEN Valid(v)
    ELSE IF v.t = "list" /\ \A i \in 1..Len(v.v) : v.v[i].t = "str" THEN Valid(v)
    ELSE ValidationError

\* ALLOWED_HOSTS from environment text: decode, run the "before" validator, validate;
\* a text that decodes to None (null) is no input, and the field takes its default
hosts_validate(s) ==
    IF decode_complex_value(s) = PyNone THEN Valid(Default("ALLOWED_HOSTS"))
    ELSE union_validate(assemble_cors_origins(decode_complex_value(s)))

\* the field's value from its environment text
field_validate(f, s) ==
    IF f \in IntFields THEN int_validate(s)
    ELSE IF f = "ALLOWED_HOSTS" THEN hosts_validate(s)
    ELSE Valid(PyStr(s))

---------------------------------------------------------------------------
(* load_dotenv and the settings sources. *)

EmptyEnv == <<>>

\* dotenv's merge of the file into os.environ
set_as_environment_variables(env, file, override) ==
    [k \in DOMAIN env \cup DOMAIN file |->
        IF k \in DOMAIN file /\ (override \/ k \notin DOMAIN env) THEN file[k] ELSE env[k]]

\* slip: load_dotenv(".env"), whose override defaults to False
load_dotenv_no_override(env, file) == set_as_environment_variables(env, file, FALSE)

\* load_dotenv(".env", override=True)
load_dotenv(env, file) == set_as_environment_variables(env, file, TRUE)

\* slip: Settings() constructed before load_dotenv has run
SettingsEnvironBefore(before, merged) == before

\* Settings() at the end of the module reads the environment as load_dotenv left it
SettingsEnviron(before, merged) == merged

\* the one modelled name with a variant that differs in case only
Lower(k) == IF k = "AWS_REGION" THEN "aws_region" ELSE k

\* slip: case_sensitive left at its default, False
EnvKeyAnyCase(env, f) == {k \in DOMAIN env : Lower(k) = Lower(f)}

\* Config.case_sensitive = True: the variable of a field is the one of exactly its name
EnvKey(env, f) == IF f \in DOMAIN env THEN {f} ELSE {}

\* the text bound to field f, <<>> when no source has one: the process environment
\* comes before the env_file (Config.env_file = ".env")
FieldSource(env, file, f) ==
    IF EnvKey(env, f) # {} THEN <<env[CHOOSE k \in EnvKey(env, f) : TRUE]>>
    ELSE IF EnvKey(file, f) # {} THEN <<file[CHOOSE k \in EnvKey(file, f) : TRUE]>>
    ELSE <<>>

\* keys of the env_file that name no field and have a non-empty value: BaseSettings
\* forbids extra inputs, and the env_file source hands these to the model
ExtraInputs(file) == {k \in DOMAIN file \ FieldNames : Len(file[k]) > 0}

\* Settings(): every field from its source or its default, or a ValidationError
NewSettings(env, file) ==
    LET src(f) == FieldSource(env, file, f)
        res(f) == IF src(f) = <<>> THEN Valid(Default(f)) ELSE field_validate(f, src(f)[1])
        hosts  == src("ALLOWED_HOSTS")
        v      == decode_complex_value(hosts[1])
    IN  [ ok   |-> ExtraInputs(file) = {} /\ \A f \in FieldNames : res(f).ok,
          obj  |-> [f \in FieldNames |-> res(f).val],
          call |-> IF hosts = <<>> \/ v = PyNone THEN <<>>
                   ELSE <<[v |-> v, ret |-> assemble_cors_origins(v)]>> ]

---------------------------------------------------------------------------
(* Initial states: a process about to import app.core.config, with some    *)
(* environment and some .env file.                                         *)

HostChars == {"a", ",", " ", "[", "]", "\"", "5"}

IntChars == {"4", "5", "x"}

Texts(chars, n) == UNION {[1..k -> chars] : k \in 0..n}

\* longer ALLOWED_HOSTS texts: the example of the specification, lists whose
\* elements a str would have had trimmed or dropped, null, a bool, a list of null
HostSamples ==
    { <<"a", ",", " ", "b", " ", ",", ",", "c">>,
      <<"[", "\"", " ", "a", "\"", ",", "\"", "\"", "]">>,
      <<"[", "\"", "a", "\"", ",", " ", "\"", "b", "\"", "]">>,
      <<"n", "u", "l", "l">>, <<"t", "r", "u", "e">>, <<"[", "n", "u", "l", "l", "]">> }

IntSamples ==
    { <<"n", "o", "t", "-", "a", "-", "n", "u", "m", "b", "e", "r">>, <<"3", "0", "0">> }

\* name unset, or set to one of vals
Opt(name, vals) == {EmptyEnv} \cup {name :> v : v \in vals}

\* environments and files over a few variables: a str field, a name that differs
\* from it in case only, an optional field, an int field, the allow-list
SmallMaps ==
    { r @@ l @@ b @@ t @@ h :
        r \in Opt("AWS_REGION", {"eu-west-1", "ap-south-1"}),
        l \in Opt("aws_region", {"eu-west-1", ""}),
        b \in Opt("S3_BUCKET_NAME", {"my-bucket"}),
        t \in Opt("CACHE_TTL", {<<"4", "5">>, <<"4", "x">>}),
        h \in Opt("ALLOWED_HOSTS", {<<"a", ",", " ", "b", " ", ",", ",", "c">>}) }

\* environments that set only integer fields, to every short text
IntMaps ==
    { a @@ c :
        a \in Opt("ACCESS_TOKEN_EXPIRE_MINUTES", Texts(IntChars, MaxIntLen) \cup IntSamples),
        c \in Opt("CACHE_TTL", Texts(IntChars, MaxIntLen)) }

\* environments that set only ALLOWED_HOSTS, to every short text
HostMaps == Opt("ALLOWED_HOSTS", Texts(HostChars, MaxHostsLen) \cup HostSamples)

Init ==
    /\ \/ environ \in SmallMaps /\ dotenv \in SmallMaps
       \/ environ \in IntMaps /\ dotenv = EmptyEnv
       \/ environ \in HostMaps /\ dotenv = EmptyEnv
    /\ inherited = environ
    /\ pc = "start"
    /\ settings = <<>>
    /\ validator = <<>>
    /\ loads = 0

---------------------------------------------------------------------------
(* Actions. *)

\* executing app/core/config.py: load_dotenv, then settings = Settings()
Load ==
    /\ loads < MaxLoads
    /\ LET merged == load_dotenv(environ, dotenv)
           r == NewSettings(SettingsEnviron(environ, merged), dotenv)
       IN  /\ environ' = merged
           /\ validator' = r.call
           /\ IF r.ok
              THEN pc' = "loaded" /\ settings' = <<r.obj>>
              ELSE pc' = "failed" /\ settings' = <<>>
    /\ loads' = loads + 1
    /\ UNCHANGED <<dotenv, inherited>>

Next == Load

Spec == Init /\ [][Next]_vars

---------------------------------------------------------------------------
(* Properties. *)

Star == PyList(<<PyStr(<<"*">>)>>)

\* the defaults of the documented table
DocumentedDefaults ==
    [ PROJECT_NAME                |-> PyStr("FastAPI AWS Boilerplate"),
      VERSION                     |-> PyStr("1.0.0"),
      DESCRIPTION                 |-> PyStr("FastAPI application with AWS services"),
      API_V1_STR                  |-> PyStr("/api/v1"),
      ENVIRONMENT                 |-> PyStr("development"),
      ALLOWED_HOSTS               |-> Star,
      AWS_REGION                  |-> PyStr("us-east-1"),
      AWS_ACCESS_KEY_ID           |-> PyNone,
      AWS_SECRET_ACCESS_KEY       |-> PyNone,
      DYNAMODB_TABLE_PREFIX       |-> PyStr("fastapi-app"),
      USERS_TABLE_NAME            |-> PyStr("fastapi-app-users"),
      COGNITO_USER_POOL_ID        |-> PyNone,
      COGNITO_CLIENT_ID           |-> PyNone,
      COGNITO_CLIENT_SECRET       |-> PyNone,
      COGNITO_REGION              |-> PyStr("us-east-1"),
      S3_BUCKET_NAME              |-> PyNone,
      S3_REGION                   |-> PyStr("us-east-1"),
      JWT_SECRET_KEY              |-> PyStr("your-secret-key-change-this"),
      JWT_ALGORITHM               |-> PyStr("HS256"),
      ACCESS_TOKEN_EXPIRE_MINUTES |-> PyInt(30),
      CACHE_TTL                   |-> PyInt(300) ]

\* none of the declared variables is set and there is no .env file
Scrubbed == DOMAIN inherited \cap DOMAIN DocumentedDefaults = {} /\ DOMAIN dotenv = {}

\* C1: in a scrubbed environment with no .env file, load() succeeds and every
\* field of the Settings object equals its documented default
C1_Defaults == (loads > 0 /\ Scrubbed) => (pc = "loaded" /\ settings = <<DocumentedDefaults>>)

C1_Witness ==
    /\ loads > 0 /\ Scrubbed /\ pc = "loaded"
    /\ settings[1].ALLOWED_HOSTS = Star /\ settings[1].S3_BUCKET_NAME = PyNone

\* the pieces between the commas of s, trimmed, the empty ones left out, in order;
\* stated by positions: a piece starts after position lo (0 or a comma)
RefHosts(s) ==
    LET n == Len(s)
        commas == {i \in 1..n : s[i] = ","}
        hi(lo) == CHOOSE j \in (commas \cup {n + 1}) :
                      j > lo /\ \A c \in commas : c > lo => j <= c
        core(lo) == {i \in (lo + 1)..(hi(lo) - 1) : s[i] \notin Whitespace}
        kept == {lo \in {0} \cup commas : core(lo) # {}}
        first(lo) == CHOOSE i \in core(lo) : \A j \in core(lo) : i <= j
        last(lo) == CHOOSE i \in core(lo) : \A j \in core(lo) : i >= j
        nth(k) == CHOOSE lo \in kept : Cardinality({x \in kept : x < lo}) = k - 1
    IN  [k \in 1..Cardinality(kept) |-> PyStr(SubSeq(s, first(nth(k)), last(nth(k))))]

ExampleText == <<"a", ",", " ", "b", " ", ",", ",", "c">>

ExampleHosts == PyList(<<PyStr(<<"a">>), PyStr(<<"b">>), PyStr(<<"c">>)>>)

\* C2: for a string, the normalizer returns the comma-separated pieces, trimmed,
\* without the empty ones, in their original order ("a, b ,,c" gives a, b, c)
C2_StringSplit ==
    (validator # <<>> /\ validator[1].v.t = "str") =>
        /\ validator[1].ret = PyList(RefHosts(validator[1].v.v))
        /\ validator[1].v.v = ExampleText => validator[1].ret = ExampleHosts

C2_Witness ==
    /\ validator # <<>>
    /\ validator[1].v = PyStr(ExampleText)
    /\ validator[1].ret = ExampleHosts
    /\ pc = "loaded" /\ settings[1].ALLOWED_HOSTS = ExampleHosts

\* variables that the started process and the .env file define differently
Conflicts == {k \in DOMAIN inherited \cap DOMAIN dotenv : inherited[k] # dotenv[k]}

\* C3: where the process environment and the .env file define the same variable
\* differently, after loading the environment holds the file's value and so does
\* the Settings field
C3_FileWins ==
    loads > 0 =>
        \A k \in Conflicts :
            /\ environ[k] = dotenv[k]
            /\ (pc = "loaded" /\ k \in StrFields \cup OptionalFields)
                   => settings[1][k] = PyStr(dotenv[k])

C3_Witness ==
    /\ pc = "loaded"
    /\ "AWS_REGION" \in Conflicts
    /\ settings[1].AWS_REGION = PyStr(dotenv.AWS_REGION)
    /\ settings[1].AWS_REGION # PyStr(inherited.AWS_REGION)

RECURSIVE RefDecimal(_)
\* the number a digit string denotes, least significant digit first
RefDecimal(s) ==
    IF s = <<>> THEN 0 ELSE 10 * RefDecimal(SubSeq(s, 1, Len(s) - 1)) + DigitVal(s[Len(s)])

Numeric(s) == Len(s) > 0 /\ {s[i] : i \in 1..Len(s)} \subseteq Digits

\* C4: an integer field set to a numeric string is that integer ("45" is 45);
\* set to anything else, load() fails and leaves no Settings object
C4_IntegerFields ==
    loads > 0 =>
        \A f \in {"ACCESS_TOKEN_EXPIRE_MINUTES", "CACHE_TTL"} \cap DOMAIN environ :
            IF Numeric(environ[f])
            THEN pc = "loaded" =>
                    /\ settings[1][f] = PyInt(RefDecimal(environ[f]))
                    /\ environ[f] = <<"4", "5">> => settings[1][f] = PyInt(45)
            ELSE pc = "failed" /\ settings = <<>>

C4_Witness ==
    /\ pc = "failed" /\ settings = <<>>
    /\ "ACCESS_TOKEN_EXPIRE_MINUTES" \in DOMAIN environ
    /\ "CACHE_TTL" \in DOMAIN environ
    /\ environ.ACCESS_TOKEN_EXPIRE_MINUTES =
           <<"n", "o", "t", "-", "a", "-", "n", "u", "m", "b", "e", "r">>
    /\ environ.CACHE_TTL = <<"4", "5">>

\* a list whose every element is a string
ListOfStr(x) == x.t = "list" /\ \A i \in 1..Len(x.v) : x.v[i].t = "str"

NoEmptyElement(x) == \A i \in 1..Len(x.v) : x.v[i].v # <<>>

\* C5 as stated: after a successful construction ALLOWED_HOSTS is a sequence of
\* non-empty strings, whatever the raw input was
C5_Original ==
    pc = "loaded" =>
        ListOfStr(settings[1].ALLOWED_HOSTS) /\ NoEmptyElement(settings[1].ALLOWED_HOSTS)

\* C5 amended: after a successful construction ALLOWED_HOSTS is a sequence of
\* strings, never a raw string, and its elements are non-empty unless the raw
\* input was already a list, which is kept as it is
C5_Amended ==
    pc = "loaded" =>
        /\ ListOfStr(settings[1].ALLOWED_HOSTS)
        /\ (validator = <<>> \/ validator[1].v.t # "list")
               => NoEmptyElement(settings[1].ALLOWED_HOSTS)

C5_Witness ==
    /\ pc = "loaded"
    /\ validator # <<>> /\ validator[1].v.t = "str"
    /\ \E i \in 1..Len(validator[1].v.v) : validator[1].v.v[i] = ","
    /\ Len(settings[1].ALLOWED_HOSTS.v) = 1

\* C6: for an input that is neither a string nor a list the normalizer returns
\* ["*"], and the construction goes on with it
C6_Fallback ==
    (validator # <<>> /\ validator[1].v.t \notin {"str", "list"}) =>
        /\ validator[1].ret = Star
        /\ DOMAIN environ = {"ALLOWED_HOSTS"} => (pc = "loaded" /\ settings[1].ALLOWED_HOSTS = Star)

C6_Witness ==
    /\ validator # <<>> /\ validator[1].v = PyInt(5)
    /\ validator[1].ret = Star
    /\ pc = "loaded" /\ settings[1].ALLOWED_HOSTS = Star

\* C7: for an input that is a list the normalizer returns the list as it is
C7_ListUnchanged ==
    (validator # <<>> /\ validator[1].v.t = "list") =>
        /\ validator[1].ret = validator[1].v
        /\ pc = "loaded" => settings[1].ALLOWED_HOSTS = validator[1].v

C7_Witness ==
    /\ validator # <<>>
    /\ validator[1].v = PyList(<<PyStr(<<" ", "a">>), PyStr(<<>>)>>)
    /\ pc = "loaded" /\ settings[1].ALLOWED_HOSTS = validator[1].v

C9_ExactCase ==
    pc = "loaded" =>
        /\ \A f \in DOMAIN DocumentedDefaults \ DOMAIN environ :
               settings[1][f] = DocumentedDefaults[f]
        /\ ("aws_region" \in DOMAIN environ /\ "AWS_REGION" \notin DOMAIN environ)
               => settings[1].AWS_REGION = PyStr("us-east-1")

C9_Witness ==
    /\ pc = "loaded"
    /\ "aws_region" \in DOMAIN environ /\ environ.aws_region = "eu-west-1"
    /\ "AWS_REGION" \notin DOMAIN environ
    /\ settings[1].AWS_REGION = PyStr("us-east-1")

\* a text of commas and whitespace only (the empty text is one)
Blank(s) == \A i \in 1..Len(s) : s[i] \in Whitespace \cup {","}

\* C10: for a string without any non-whitespace piece the normalizer returns the
\* empty list, not ["*"], and the allow-list of the Settings object is empty
C10_BlankIsEmpty ==
    (validator # <<>> /\ validator[1].v.t = "str" /\ Blank(validator[1].v.v)) =>
        /\ validator[1].ret = PyList(<<>>)
        /\ pc = "loaded" => settings[1].ALLOWED_HOSTS = PyList(<<>>)

C10_Witness ==
    /\ validator # <<>>
    /\ validator[1].v = PyStr(<<" ", ",", " ", ",">>)
    /\ pc = "loaded" /\ settings[1].ALLOWED_HOSTS = PyList(<<>>)

====
